---- MODULE Spec2Model ----
\* pyroSAR/ancillary.py: groupbyTime, seconds, parse_datasetname, find_datasets.
\* Every function is a call: Init draws the function and its arguments, the
\* call action runs the whole body and records how it ended (a returned value
\* or the exception that left it).
EXTENDS Integers, Sequences, FiniteSets, TLC

VARIABLES
    op,          \* the function called
    pc,          \* "start" before the call, "done" after it
    images,      \* groupbyTime: the caller's list object
    function,    \* groupbyTime: the time function, item -> number
    time,        \* groupbyTime: the threshold
    filename,    \* seconds: the file name, a sequence of characters
    name,        \* parse_datasetname: the name to parse
    parse_date,  \* parse_datasetname: the flag
    files,       \* find_datasets: what finder() returned for the directory
    kwargs,      \* find_datasets: the constraints, in keyword order
    result       \* how the call ended

vars == <<op, pc, images, function, time, filename, name, parse_date, files, kwargs, result>>

\* ---------------------------------------------------------------- bounds
MaxLen == 4          \* longest list given to groupbyTime
MaxTime == 3         \* time values are 0..MaxTime
MaxThreshold == 2    \* thresholds are 0..MaxThreshold

Items == {"a", "b", "c"}

NoResult == [kind |-> "none"]

abs(x) == IF x < 0 THEN -x ELSE x

RECURSIVE SeqsUpTo(_, _)
SeqsUpTo(S, n) ==
    IF n = 0 THEN {<<>>}
    ELSE LET shorter == SeqsUpTo(S, n - 1)
         IN shorter \cup {Append(s, x) : s \in {q \in shorter : Len(q) = n - 1}, x \in S}

\* ------------------------------------------------------------ groupbyTime
\* sorted(images, key=function): a new list, ascending by key, stable: an item
\* goes after every item already placed whose key is not greater.
InsertByKey(s, x, key) ==
    LET k == Cardinality({i \in 1..Len(s) : key[s[i]] <= key[x]})
    IN SubSeq(s, 1, k) \o <<x>> \o SubSeq(s, k + 1, Len(s))

RECURSIVE StableSort(_, _)
StableSort(s, key) ==
    IF s = <<>> THEN <<>>
    ELSE InsertByKey(StableSort(SubSeq(s, 1, Len(s) - 1), key), s[Len(s)], key)

\* variant: the list is used in the order given
sorted_unsorted(s, key) == s

\* variant: ties come out in reverse input order
sorted_unstable(s, key) ==
    LET r == [i \in 1..Len(s) |-> s[Len(s) + 1 - i]]
    IN StableSort(r, key)

sorted(s, key) == StableSort(s, key)

\* variant: a zero difference joins the group
SameGroup_zero(d, threshold) == 0 <= d /\ d <= threshold

\* variant: a difference equal to the threshold starts a new group
SameGroup_strict(d, threshold) == 0 < d /\ d < threshold

\* line 47: 0 < abs(...) <= time
SameGroup(d, threshold) == 0 < d /\ d <= threshold

\* lines 45-51: the scan; i is the 1-based position in srcfiles
RECURSIVE GroupLoop(_, _, _, _, _)
GroupLoop(srcfiles, fn, threshold, i, groups) ==
    IF i > Len(srcfiles) THEN groups
    ELSE LET item == srcfiles[i]
             group == groups[Len(groups)]
             d == abs(fn[item] - fn[group[Len(group)]])
         IN IF SameGroup(d, threshold)
            THEN GroupLoop(srcfiles, fn, threshold, i + 1,
                           [groups EXCEPT ![Len(groups)] = Append(group, item)])
            ELSE GroupLoop(srcfiles, fn, threshold, i + 1, Append(groups, <<item>>))

\* line 52: x[0] if len(x) == 1 else x. list = FALSE is the bare item members[1]
Unwrap(x) ==
    IF Len(x) = 1 THEN [list |-> FALSE, members |-> <<x[1]>>]
    ELSE [list |-> TRUE, members |-> x]

Wrapped(groups) == [g \in 1..Len(groups) |-> Unwrap(groups[g])]

\* variant: an empty list gives an empty result
groupbyTime_guarded(imgs, fn, threshold) ==
    LET srcfiles == sorted(imgs, fn)
    IN IF srcfiles = <<>> THEN [kind |-> "ok", groups |-> <<>>]
       ELSE [kind |-> "ok",
             groups |-> Wrapped(GroupLoop(srcfiles, fn, threshold, 2, <<<<srcfiles[1]>>>>))]

\* lines 40-52; srcfiles[0] of an empty list raises IndexError (line 42)
groupbyTime(imgs, fn, threshold) ==
    LET srcfiles == sorted(imgs, fn)
    IN IF srcfiles = <<>> THEN [kind |-> "IndexError"]
       ELSE [kind |-> "ok",
             groups |-> Wrapped(GroupLoop(srcfiles, fn, threshold, 2, <<<<srcfiles[1]>>>>))]

\* line 40: sorted() builds a new list, the caller's list is not written
ImagesAfter(imgs, fn) == imgs


\* ---------------------------------------------------------------- seconds
\* A str is the sequence of its characters.
Digits == {"0", "1", "2", "3", "4", "5", "6", "7", "8", "9"}
DigitSeq == <<"0", "1", "2", "3", "4", "5", "6", "7", "8", "9">>
DigitVal(c) == (CHOOSE i \in 1..10 : DigitSeq[i] = c) - 1
Num2(s, i) == 10 * DigitVal(s[i]) + DigitVal(s[i + 1])
Num4(s, i) == 100 * Num2(s, i) + Num2(s, i + 2)

\* the {15} of the pattern on line 72
TokenLen == 15

\* the text '%Y%m%dT%H%M%S' can match in full: 8 digits, T, 6 digits
FormatShape(s, i) ==
    /\ \A j \in i..(i + 7) : s[j] \in Digits
    /\ s[i + 8] = "T"
    /\ \A j \in (i + 9)..(i + 14) : s[j] \in Digits

\* [0-9T]{15} matched at position i
TokenMatch(s, i) == \A j \in i..(i + TokenLen - 1) : s[j] \in Digits \cup {"T"}

\* re.findall('[0-9T]{15}', s): the non-overlapping matches, left to right
RECURSIVE findall(_, _)
findall(s, i) ==
    IF i + TokenLen - 1 > Len(s) THEN <<>>
    ELSE IF TokenMatch(s, i) THEN <<SubSeq(s, i, i + TokenLen - 1)>> \o findall(s, i + TokenLen)
    ELSE findall(s, i + 1)

IsLeap(y) == (y % 4 = 0 /\ y % 100 # 0) \/ y % 400 = 0
DaysInMonth(y, m) ==
    IF m = 2 THEN (IF IsLeap(y) THEN 29 ELSE 28)
    ELSE IF m \in {4, 6, 9, 11} THEN 30 ELSE 31

RECURSIVE DaysBeforeMonth(_, _)
DaysBeforeMonth(y, m) == IF m = 1 THEN 0 ELSE DaysBeforeMonth(y, m - 1) + DaysInMonth(y, m - 1)

\* datetime.toordinal(): day 1 is 0001-01-01
Ordinal(y, m, d) ==
    LET p == y - 1
    IN p * 365 + (p \div 4) - (p \div 100) + (p \div 400) + DaysBeforeMonth(y, m) + d

\* datetime.strptime(s, '%Y%m%dT%H%M%S'): every field of the format takes its
\* full width or the text does not match; the value must be a date and a time
strptime(s) ==
    IF ~(Len(s) = TokenLen /\ FormatShape(s, 1)) THEN [kind |-> "ValueError"]
    ELSE LET Y == Num4(s, 1)
             m == Num2(s, 5)
             d == Num2(s, 7)
             H == Num2(s, 10)
             M == Num2(s, 12)
             S == Num2(s, 14)
         IN IF /\ Y >= 1 /\ m \in 1..12
               /\ d >= 1 /\ d <= DaysInMonth(Y, m)
               /\ H <= 23 /\ M <= 59 /\ S <= 59
            THEN [kind |-> "ok", dt |-> <<Y, m, d, H, M, S>>]
            ELSE [kind |-> "ValueError"]

\* (dt - datetime(1900, 1, 1)).total_seconds()
total_seconds(dt) ==
    (Ordinal(dt[1], dt[2], dt[3]) - Ordinal(1900, 1, 1)) * 86400
        + dt[4] * 3600 + dt[5] * 60 + dt[6]

\* lines 72-73; [0] of an empty findall raises IndexError
seconds(fname) ==
    LET found == findall(fname, 1)
    IN IF found = <<>> THEN [kind |-> "IndexError"]
       ELSE LET parsed == strptime(found[1])
            IN IF parsed.kind # "ok" THEN [kind |-> parsed.kind]
               ELSE [kind |-> "ok", value |-> total_seconds(parsed.dt)]

\* file names are built from these pieces
MaxSegs == 3
Tok1950 == <<"1","9","5","0","0","3","0","9","T","1","7","3","0","1","7">>
Tok1900 == <<"1","9","0","0","0","1","0","1","T","0","0","0","0","0","1">>
TokFeb30 == <<"1","9","5","0","0","2","3","0","T","1","7","3","0","1","7">>
Segments == {<<"_">>, <<"1">>, <<"T">>, Tok1950, Tok1900, TokFeb30}

RECURSIVE Flatten(_)
Flatten(ss) == IF ss = <<>> THEN <<>> ELSE ss[1] \o Flatten(Tail(ss))

FileNames == {Flatten(ss) : ss \in SeqsUpTo(Segments, MaxSegs)}

\* ------------------------------------------------------ parse_datasetname
\* Python values: None, a str, a list of str, a datetime
None == [t |-> "None", s |-> <<>>, l |-> <<>>, n |-> <<>>]
StrV(s) == [t |-> "str", s |-> s, l |-> <<>>, n |-> <<>>]
ListV(l) == [t |-> "list", s |-> <<>>, l |-> l, n |-> <<>>]
DateV(n) == [t |-> "datetime", s |-> <<>>, l |-> <<>>, n |-> n]

Keys == {"sensor", "acquisition_mode", "orbit", "start", "extensions", "polarization",
         "proc_steps"}

\* A file name is given by what product_pattern makes of it: whether it
\* matches, and the text each named group captures.
\* re.match(re.compile(product_pattern), name), then match.groupdict()
ProductMatch(nm) ==
    IF nm.matches THEN [matched |-> TRUE, groupdict |-> [k \in Keys |-> StrV(nm.caps[k])]]
    ELSE [matched |-> FALSE]

\* str.split('_')
RECURSIVE split(_)
split(s) ==
    IF \A i \in 1..Len(s) : s[i] # "_" THEN <<s>>
    ELSE LET i == CHOOSE j \in 1..Len(s) : s[j] = "_" /\ \A k \in 1..(j - 1) : s[k] # "_"
         IN <<SubSeq(s, 1, i - 1)>> \o split(SubSeq(s, i + 1, Len(s)))

\* lines 103-104
extensions_value(v) == IF v = StrV(<<>>) THEN None ELSE v

\* variant: an empty capture is kept as it is
proc_steps_value_kept(v) == IF Len(v.s) > 0 THEN ListV(split(v.s)) ELSE v

\* lines 105-108
proc_steps_value(v) == IF Len(v.s) > 0 THEN ListV(split(v.s)) ELSE None

\* lines 99-111
parse_datasetname(nm, flag) ==
    LET match == ProductMatch(nm)
    IN IF ~match.matched THEN [kind |-> "ok", absent |-> TRUE]
       ELSE LET out1 == [match.groupdict EXCEPT
                            !["extensions"] = extensions_value(@),
                            !["proc_steps"] = proc_steps_value(@)]
            IN IF ~flag THEN [kind |-> "ok", absent |-> FALSE, meta |-> out1]
               ELSE LET parsed == strptime(out1["start"].s)
                    IN IF parsed.kind # "ok" THEN [kind |-> parsed.kind]
                       ELSE [kind |-> "ok", absent |-> FALSE,
                             meta |-> [out1 EXCEPT !["start"] = DateV(parsed.dt)]]

MaxCapLen == 3       \* longest proc_steps capture
S1A == <<"S", "1", "A">>
S1B == <<"S", "1", "B">>
S2A == <<"S", "2", "A">>
VV == <<"V", "V">>
VH == <<"V", "H">>

MatchingNames(steps, exts, starts) ==
    {[matches |-> TRUE,
      caps |-> [sensor |-> se, acquisition_mode |-> <<"I", "W">>, orbit |-> <<"A">>,
                start |-> st, extensions |-> ex, polarization |-> po, proc_steps |-> ps]] :
        se \in {S1A, S1B, S2A}, po \in {VV, VH}, ps \in steps, ex \in exts, st \in starts}

\* a name product_pattern does not match
OtherName ==
    [matches |-> FALSE,
     caps |-> [sensor |-> <<>>, acquisition_mode |-> <<>>, orbit |-> <<>>, start |-> <<>>,
               extensions |-> <<>>, polarization |-> <<>>, proc_steps |-> <<>>]]

Names ==
    {OtherName} \cup MatchingNames(SeqsUpTo({"g", "_"}, MaxCapLen), {<<>>, <<"e">>},
                                   {Tok1950, TokFeb30})

\* ---------------------------------------------------------- find_datasets
\* a keyword argument key=val; val is a tuple of values or one value
Kw(key, vals) == [key |-> key, tuple |-> TRUE, vals |-> vals]
Kw1(key, val) == [key |-> key, tuple |-> FALSE, vals |-> <<val>>]

\* variant: a key the mapping does not hold never matches
constraint_match_get(res, c) ==
    IF res.absent THEN [kind |-> "TypeError"]
    ELSE IF c.key \notin DOMAIN res.meta THEN [kind |-> "ok", match |-> FALSE]
    ELSE IF c.tuple
         THEN [kind |-> "ok", match |-> \E i \in 1..Len(c.vals) : res.meta[c.key] = c.vals[i]]
         ELSE [kind |-> "ok", match |-> res.meta[c.key] = c.vals[1]]

\* lines 143-146; meta[key] of None raises TypeError, of an unknown key KeyError
constraint_match(res, c) ==
    IF res.absent THEN [kind |-> "TypeError"]
    ELSE IF c.key \notin DOMAIN res.meta THEN [kind |-> "KeyError"]
    ELSE IF c.tuple
         THEN [kind |-> "ok", match |-> \E i \in 1..Len(c.vals) : res.meta[c.key] = c.vals[i]]
         ELSE [kind |-> "ok", match |-> res.meta[c.key] = c.vals[1]]

\* lines 142-146: each constraint assigns match
RECURSIVE KwLoop(_, _, _, _)
KwLoop(res, kws, j, match) ==
    IF j > Len(kws) THEN [kind |-> "ok", match |-> match]
    ELSE LET r == constraint_match(res, kws[j])
         IN IF r.kind # "ok" THEN r ELSE KwLoop(res, kws, j + 1, r.match)

\* lines 139-148
RECURSIVE FileLoop(_, _, _, _)
FileLoop(fs, kws, i, selection) ==
    IF i > Len(fs) THEN [kind |-> "ok", selection |-> selection]
    ELSE LET meta == parse_datasetname(fs[i], FALSE)
             r == KwLoop(meta, kws, 1, TRUE)
         IN IF r.kind # "ok" THEN [kind |-> r.kind]
            ELSE FileLoop(fs, kws, i + 1, IF r.match THEN Append(selection, fs[i]) ELSE selection)

\* lines 137-149, on the list fs that finder() returned
find_datasets(fs, kws) == FileLoop(fs, kws, 1, <<>>)

MaxFiles == 2        \* most files finder() returns
MaxKw == 2           \* most keyword arguments

DirNames == {OtherName} \cup MatchingNames({<<>>, <<"g", "_", "g">>}, {<<>>}, {Tok1950})

KwUniverse ==
    {Kw("sensor", <<StrV(S1A), StrV(S1B)>>),
     Kw1("sensor", StrV(S1A)),
     Kw1("polarization", StrV(VV)),
     Kw1("proc_steps", ListV(<<<<"g">>, <<"g">>>>)),
     Kw1("extensions", None),
     Kw1("bogus_key", StrV(<<"x">>))}

\* keyword arguments have distinct names
KwArgs ==
    {kws \in SeqsUpTo(KwUniverse, MaxKw) :
        \A i, j \in 1..Len(kws) : i # j => kws[i].key # kws[j].key}

Init_groupbyTime ==
    /\ op = "groupbyTime"
    /\ images \in SeqsUpTo(Items, MaxLen)
    /\ function \in [Items -> 0..MaxTime]
    /\ time \in 0..MaxThreshold
    /\ filename = <<>> /\ name = <<>> /\ parse_date = FALSE
    /\ files = <<>> /\ kwargs = <<>>

Init_seconds ==
    /\ op = "seconds"
    /\ filename \in FileNames
    /\ images = <<>> /\ function = <<>> /\ time = 0
    /\ name = <<>> /\ parse_date = FALSE
    /\ files = <<>> /\ kwargs = <<>>

Init_parse_datasetname ==
    /\ op = "parse_datasetname"
    /\ name \in Names
    /\ parse_date \in BOOLEAN
    /\ images = <<>> /\ function = <<>> /\ time = 0
    /\ filename = <<>> /\ files = <<>> /\ kwargs = <<>>

Init_find_datasets ==
    /\ op = "find_datasets"
    /\ files \in SeqsUpTo(DirNames, MaxFiles)
    /\ kwargs \in KwArgs
    /\ images = <<>> /\ function = <<>> /\ time = 0
    /\ filename = <<>> /\ name = <<>> /\ parse_date = FALSE

Call_groupbyTime ==
    /\ op = "groupbyTime" /\ pc = "start"
    /\ result' = groupbyTime(images, function, time)
    /\ images' = ImagesAfter(images, function)
    /\ pc' = "done"
    /\ UNCHANGED <<op, function, time, filename, name, parse_date, files, kwargs>>

Call_seconds ==
    /\ op = "seconds" /\ pc = "start"
    /\ result' = seconds(filename)
    /\ pc' = "done"
    /\ UNCHANGED <<op, images, function, time, filename, name, parse_date, files, kwargs>>

Call_parse_datasetname ==
    /\ op = "parse_datasetname" /\ pc = "start"
    /\ result' = parse_datasetname(name, parse_date)
    /\ pc' = "done"
    /\ UNCHANGED <<op, images, function, time, filename, name, parse_date, files, kwargs>>

Call_find_datasets ==
    /\ op = "find_datasets" /\ pc = "start"
    /\ result' = find_datasets(files, kwargs)
    /\ pc' = "done"
    /\ UNCHANGED <<op, images, function, time, filename, name, parse_date, files, kwargs>>

Init ==
    /\ pc = "start"
    /\ result = NoResult
    /\ \/ Init_groupbyTime
       \/ Init_seconds
       \/ Init_parse_datasetname
       \/ Init_find_datasets

Next ==
    \/ Call_groupbyTime
    \/ Call_seconds
    \/ Call_parse_datasetname
    \/ Call_find_datasets

Spec == Init /\ [][Next]_vars
\* ------------------------------------------------------------- properties
Done(f) == op = f /\ pc = "done"

\* the members of the groups of a result, in order
RECURSIVE Members(_)
Members(groups) == IF groups = <<>> THEN <<>> ELSE groups[1].members \o Members(Tail(groups))

Count(s, x) == Cardinality({i \in 1..Len(s) : s[i] = x})
Reorderings(s) == {q \in [1..Len(s) -> Items] : \A x \in Items : Count(q, x) = Count(s, x)}
WithTime(s, fn, v) == SelectSeq(s, LAMBDA x : fn[x] = v)
Ascending(s, fn) == \A i \in 1..(Len(s) - 1) : fn[s[i]] <= fn[s[i + 1]]
DistinctTimes(s, fn) == \A i, j \in 1..Len(s) : s[i] # s[j] => fn[s[i]] # fn[s[j]]
Span(g, fn) == fn[g.members[Len(g.members)]] - fn[g.members[1]]

\* C4 as stated: every permutation of a non-empty input, ties included, gives
\* the same groups.
C4_AnyOrderSameGroups ==
    (Done("groupbyTime") /\ images # <<>>) =>
        \A q \in Reorderings(images) : groupbyTime(q, function, time) = result

\* C4 amended: when distinct items of the input have distinct time values,
\* every permutation of the input gives the same groups.
C4_AnyOrderSameGroupsDistinctTimes ==
    (Done("groupbyTime") /\ images # <<>> /\ DistinctTimes(images, function)) =>
        \A q \in Reorderings(images) : groupbyTime(q, function, time) = result

C4_Witness ==
    /\ Done("groupbyTime") /\ DistinctTimes(images, function)
    /\ Len(images) >= 3 /\ ~Ascending(images, function)
    /\ \E q \in Reorderings(images) : q # images
    /\ \E g \in 1..Len(result.groups) : result.groups[g].list

\* C5: consecutive members of one group differ in time by more than zero and
\* at most the threshold, so no group holds two members of equal time.
C5_GroupGaps ==
    (Done("groupbyTime") /\ result.kind = "ok") =>
        \A g \in 1..Len(result.groups) :
            LET m == result.groups[g].members
            IN /\ \A i \in 1..(Len(m) - 1) :
                      LET d == abs(function[m[i + 1]] - function[m[i]])
                      IN 0 < d /\ d <= time
               /\ \A i, j \in 1..Len(m) : i # j => function[m[i]] # function[m[j]]

C5_Witness ==
    /\ Done("groupbyTime") /\ result.kind = "ok" /\ time >= 1
    /\ \E i, j \in 1..Len(images) : i # j /\ function[images[i]] = function[images[j]]
    /\ \E g \in 1..Len(result.groups) : Len(result.groups[g].members) >= 2

\* C7: an empty input ends in IndexError with no result, a non-empty input
\* ends with a result.
C7_EmptyInputFails ==
    Done("groupbyTime") =>
        /\ images = <<>> => result = [kind |-> "IndexError"]
        /\ images # <<>> => result.kind = "ok"

C7_Witness == Done("groupbyTime") /\ images = <<>> /\ result.kind = "IndexError"

C10_GroupsMaximal ==
    (Done("groupbyTime") /\ result.kind = "ok") =>
        /\ \A g \in 1..(Len(result.groups) - 1) :
               LET m == result.groups[g].members
                   d == abs(function[result.groups[g + 1].members[1]] - function[m[Len(m)]])
               IN d = 0 \/ d > time
        /\ \A g \in 1..Len(result.groups) :
               Span(result.groups[g], function) <= (Len(result.groups[g].members) - 1) * time

\* a group spanning more than the threshold, next to another group
C10_Witness ==
    /\ Done("groupbyTime") /\ result.kind = "ok" /\ Len(result.groups) >= 2
    /\ \E g \in 1..Len(result.groups) : Span(result.groups[g], function) > time

\* C6 as stated: the first substring of the shape 8 digits, T, 6 digits is
\* used: when it is a date and a time the call returns its offset from
\* 1900-01-01T00:00:00, whatever precedes it; IndexError only when the name
\* holds no substring of that shape.
ShapePositions(s) == {i \in 1..(Len(s) - TokenLen + 1) : FormatShape(s, i)}
FirstShaped(s) ==
    LET i == CHOOSE k \in ShapePositions(s) : \A j \in ShapePositions(s) : k <= j
    IN SubSeq(s, i, i + TokenLen - 1)

C6_FirstShapedTokenUsed ==
    Done("seconds") =>
        /\ (ShapePositions(filename) # {} /\ strptime(FirstShaped(filename)).kind = "ok") =>
               result = [kind |-> "ok",
                         value |-> total_seconds(strptime(FirstShaped(filename)).dt)]
        /\ result.kind = "IndexError" => ShapePositions(filename) = {}

\* C8: a name the pattern does not match gives an absent result and no
\* exception; a returned mapping holds None for an empty extensions or
\* proc_steps capture, never '' or [], and for a non-empty proc_steps capture
\* the list of its tags, free of '_', whose join with '_' is the capture.
RECURSIVE Join(_)
Join(l) == IF Len(l) = 1 THEN l[1] ELSE l[1] \o <<"_">> \o Join(Tail(l))

C8_ParsedMapping ==
    Done("parse_datasetname") =>
        /\ ~name.matches => result = [kind |-> "ok", absent |-> TRUE]
        /\ (name.matches /\ result.kind = "ok") =>
               /\ ~result.absent
               /\ result.meta["extensions"] # StrV(<<>>)
               /\ result.meta["proc_steps"] \notin {StrV(<<>>), ListV(<<>>)}
               /\ name.caps.extensions = <<>> => result.meta["extensions"] = None
               /\ name.caps.extensions # <<>> =>
                      result.meta["extensions"] = StrV(name.caps.extensions)
               /\ name.caps.proc_steps = <<>> => result.meta["proc_steps"] = None
               /\ name.caps.proc_steps # <<>> =>
                      LET v == result.meta["proc_steps"]
                      IN /\ v.t = "list" /\ Len(v.l) >= 1
                         /\ \A i \in 1..Len(v.l) : \A j \in 1..Len(v.l[i]) : v.l[i][j] # "_"
                         /\ Join(v.l) = name.caps.proc_steps

C8_Witness ==
    /\ Done("parse_datasetname") /\ name.matches /\ result.kind = "ok"
    /\ name.caps.extensions = <<>> /\ result.meta["extensions"] = None
    /\ Len(result.meta["proc_steps"].l) = 2

\* whether the file's mapping meets the constraint
Satisfies(f, c) ==
    /\ f.matches /\ c.key \in Keys
    /\ LET v == parse_datasetname(f, FALSE).meta[c.key]
       IN IF c.tuple THEN \E i \in 1..Len(c.vals) : v = c.vals[i] ELSE v = c.vals[1]

HasUnknownKey(kws) == \E i \in 1..Len(kws) : kws[i].key \notin Keys

\* C1: with two or more constraints, a returned file meets every one of them.
C1_AllConstraintsMet ==
    (Done("find_datasets") /\ result.kind = "ok" /\ Len(kwargs) >= 2) =>
        \A i \in 1..Len(result.selection) : \A j \in 1..Len(kwargs) :
            Satisfies(result.selection[i], kwargs[j])

C3_AbsentFileSkipped ==
    (Done("find_datasets") /\ ~HasUnknownKey(kwargs)
        /\ \E i \in 1..Len(files) : ~files[i].matches) =>
        /\ result.kind = "ok"
        /\ result = find_datasets(SelectSeq(files, LAMBDA f : f.matches), kwargs)
====
